---- MODULE Spec2Model ----
(***************************************************************************)
(* Ingestion pipeline of OSIMAP: the upload server (backend/server.js) and *)
(* the AddRecord upload client.  The server is one Node.js event loop, so  *)
(* every handler and every child-process callback is one atomic action.    *)
(***************************************************************************)
EXTENDS Integers, Sequences, FiniteSets, TLC

\* ------------------------------------------------------------------ bounds
\* POST /upload requests that arrive over the life of the model.
MaxUploads == 2
\* Uploads the page sends where its polling is followed step by step.
MaxPolled == 1
\* Characters between the inner dot of a long file name and its extension.
MaxTail == 8
\* Clock advances (Tick) the model takes.
MaxTicks == 1
\* Status responses of one polling that wait to be handled at the same time.
MaxInflight == 2
\* Clock advances of three seconds (SlowTick) the model takes.
MaxWait == 2

\* An absent value (JavaScript null) and a present one.
None == <<>>
Some(x) == <<x>>

\* ------------------------------------------------------- program constants
script1 == "cleaning2.py"
script2 == "export_geojson.py"
script3 == "cluster_hdbscan.py"
cleanupScript == "cleanup_files.py"
uploadScript == "mobile_cluster_fetch.py"

\* The chain in the order the scripts are numbered, the cleanup last.
ChainCleanupLast == <<script1, script2, script3, cleanupScript, uploadScript>>

\* The nested callbacks of runPythonScripts, outermost first.
Chain == <<script1, cleanupScript, script2, script3, uploadScript>>

\* Exit codes a stage process that started can close with.
ExitCodes == {0, 1}
\* The code of the 'close' that follows a failed spawn (-errno, ENOENT).
SpawnFailCode == 0 - 2

\* The clock step in milliseconds: a second and a half, so that whole seconds
\* are a proper rounding of the elapsed time.
TickSteps == {1500}

\* ------------------------------------------------------------ characters
\* A string is a sequence of one-character strings.
Uppers == <<"A", "B", "C", "D", "E", "F", "G", "H", "I", "J", "K", "L", "M", "N", "O", "P", "Q", "R", "S", "T", "U", "V", "W", "X", "Y", "Z">>
Lowers == <<"a", "b", "c", "d", "e", "f", "g", "h", "i", "j", "k", "l", "m", "n", "o", "p", "q", "r", "s", "t", "u", "v", "w", "x", "y", "z">>
DigitChars == {"0", "1", "2", "3", "4", "5", "6", "7", "8", "9"}
IndexIn(seq, c) == CHOOSE i \in 1 .. Len(seq) : seq[i] = c
IsUpper(c) == \E i \in 1 .. Len(Uppers) : Uppers[i] = c
IsLower(c) == \E i \in 1 .. Len(Lowers) : Lowers[i] = c
\* \w of a JavaScript regular expression: [A-Za-z0-9_]
IsWord(c) == IsUpper(c) \/ IsLower(c) \/ c \in DigitChars \/ c = "_"
\* \s, as far as the model's alphabet holds it
IsSpace(c) == c \in {" ", "\t"}
ToLowerChar(c) == IF IsUpper(c) THEN Lowers[IndexIn(Uppers, c)] ELSE c
toLowerCase(s) == [i \in 1 .. Len(s) |-> ToLowerChar(s[i])]

RECURSIVE trimStart(_)
trimStart(s) == IF s # <<>> /\ IsSpace(Head(s)) THEN trimStart(Tail(s)) ELSE s
RECURSIVE trimEnd(_)
trimEnd(s) ==
  IF s # <<>> /\ IsSpace(s[Len(s)]) THEN trimEnd(SubSeq(s, 1, Len(s) - 1)) ELSE s
trim(s) == trimEnd(trimStart(s))

\* s.replace(/\s+/g, '_'): every maximal run of whitespace becomes one '_'.
RECURSIVE replaceSpaceRuns(_)
replaceSpaceRuns(s) ==
  IF s = <<>> THEN <<>>
  ELSE IF IsSpace(Head(s))
       THEN <<"_">> \o replaceSpaceRuns(trimStart(s))
       ELSE <<Head(s)>> \o replaceSpaceRuns(Tail(s))

\* s.replace(/[^\w]/g, '')
RECURSIVE stripNonWord(_)
stripNonWord(s) ==
  IF s = <<>> THEN <<>>
  ELSE (IF IsWord(Head(s)) THEN <<Head(s)>> ELSE <<>>) \o stripNonWord(Tail(s))

\* s.replace(/_/g, '')
RECURSIVE stripUnderscores(_)
stripUnderscores(s) ==
  IF s = <<>> THEN <<>>
  ELSE (IF Head(s) = "_" THEN <<>> ELSE <<Head(s)>>) \o stripUnderscores(Tail(s))

\* ------------------------------------------------- structural validation
REQUIRED_COLUMNS == <<
  <<"b", "a", "r", "a", "n", "g", "a", "y">>,
  <<"l", "a", "t">>,
  <<"l", "n", "g">>,
  <<"d", "a", "t", "e", "c", "o", "m", "m", "i", "t", "t", "e", "d">>,
  <<"t", "i", "m", "e", "c", "o", "m", "m", "i", "t", "t", "e", "d">>,
  <<"o", "f", "f", "e", "n", "s", "e", "t", "y", "p", "e">> >>

SEVERITY_CALC_COLUMNS == <<
  <<"v", "i", "c", "t", "i", "m", "c", "o", "u", "n", "t">>,
  <<"s", "u", "s", "p", "e", "c", "t", "c", "o", "u", "n", "t">>,
  <<"v", "i", "c", "t", "i", "m", "i", "n", "j", "u", "r", "e", "d">>,
  <<"v", "i", "c", "t", "i", "m", "k", "i", "l", "l", "e", "d">>,
  <<"v", "i", "c", "t", "i", "m", "u", "n", "h", "a", "r", "m", "e", "d">>,
  <<"s", "u", "s", "p", "e", "c", "t", "k", "i", "l", "l", "e", "d">> >>

ALL_REQUIRED_COLUMNS == REQUIRED_COLUMNS \o SEVERITY_CALC_COLUMNS

includes(seq, x) == \E i \in 1 .. Len(seq) : seq[i] = x

\* /\b(19|20)\d{2}\b/ matches sheetName
yearRegex(sheetName) ==
  \E i \in 1 .. Len(sheetName) - 3 :
    /\ \/ sheetName[i] = "1" /\ sheetName[i + 1] = "9"
       \/ sheetName[i] = "2" /\ sheetName[i + 1] = "0"
    /\ sheetName[i + 2] \in DigitChars
    /\ sheetName[i + 3] \in DigitChars
    /\ i = 1 \/ ~IsWord(sheetName[i - 1])
    /\ i + 3 = Len(sheetName) \/ ~IsWord(sheetName[i + 4])

\* The header normalisation without its .replace(/[^\w]/g, '').
normalizeHeaderKeepsPunctuation(h) == replaceSpaceRuns(toLowerCase(trim(h)))

normalizeHeader(h) == stripNonWord(replaceSpaceRuns(toLowerCase(trim(h))))

missingColumns(headers) ==
  LET normalizedHeaders == [i \in 1 .. Len(headers) |-> normalizeHeader(headers[i])]
      found(col) ==
        \E i \in 1 .. Len(normalizedHeaders) :
          \/ toLowerCase(normalizedHeaders[i]) = toLowerCase(stripUnderscores(col))
          \/ toLowerCase(normalizedHeaders[i]) = toLowerCase(col)
      missing(col) == ~found(col)
  IN SelectSeq(ALL_REQUIRED_COLUMNS, missing)

\* The forEach body without the return that follows its 'completely empty'
\* error: an empty sheet goes on to the column and data row checks.
sheetErrorsWithoutReturn(sheet) ==
  LET yearErr == IF yearRegex(sheet.name)
                 THEN <<>>
                 ELSE <<[kind |-> "year", sheet |-> sheet.name]>>
      jsonData == sheet.rows
      miss == missingColumns(IF Len(jsonData) = 0 THEN <<>> ELSE jsonData[1])
      inBasic(col) == includes(REQUIRED_COLUMNS, col)
      inSeverity(col) == includes(SEVERITY_CALC_COLUMNS, col)
      missingBasic == SelectSeq(miss, inBasic)
      missingSeverity == SelectSeq(miss, inSeverity)
  IN yearErr
     \o (IF Len(jsonData) = 0
         THEN <<[kind |-> "empty", sheet |-> sheet.name]>>
         ELSE <<>>)
     \o (IF Len(missingBasic) > 0
         THEN <<[kind |-> "basic", sheet |-> sheet.name, cols |-> missingBasic]>>
         ELSE <<>>)
     \o (IF Len(missingSeverity) > 0
         THEN <<[kind |-> "severity", sheet |-> sheet.name, cols |-> missingSeverity]>>
         ELSE <<>>)
     \o (IF Len(jsonData) < 2
         THEN <<[kind |-> "headersonly", sheet |-> sheet.name]>>
         ELSE <<>>)

\* The errors the forEach body pushes for one sheet; a sheet is
\* [name |-> string, rows |-> the rows of sheet_to_json(.., {header: 1})].
sheetErrors(sheet) ==
  LET yearErr == IF yearRegex(sheet.name)
                 THEN <<>>
                 ELSE <<[kind |-> "year", sheet |-> sheet.name]>>
      jsonData == sheet.rows
      miss == missingColumns(jsonData[1])
      inBasic(col) == includes(REQUIRED_COLUMNS, col)
      inSeverity(col) == includes(SEVERITY_CALC_COLUMNS, col)
      missingBasic == SelectSeq(miss, inBasic)
      missingSeverity == SelectSeq(miss, inSeverity)
  IN IF Len(jsonData) = 0
     THEN yearErr \o <<[kind |-> "empty", sheet |-> sheet.name]>>
     ELSE yearErr
          \o (IF Len(missingBasic) > 0
              THEN <<[kind |-> "basic", sheet |-> sheet.name, cols |-> missingBasic]>>
              ELSE <<>>)
          \o (IF Len(missingSeverity) > 0
              THEN <<[kind |-> "severity", sheet |-> sheet.name, cols |-> missingSeverity]>>
              ELSE <<>>)
          \o (IF Len(jsonData) < 2
              THEN <<[kind |-> "headersonly", sheet |-> sheet.name]>>
              ELSE <<>>)

RECURSIVE allSheetErrors(_)
allSheetErrors(sheets) ==
  IF sheets = <<>> THEN <<>> ELSE sheetErrors(Head(sheets)) \o allSheetErrors(Tail(sheets))

\* A header row with the twelve required columns, and one data row.
FullHeader == ALL_REQUIRED_COLUMNS
DataRow == <<<<"1">>>>
\* Scenario A's workbook: one sheet "2024", all columns, data rows.
GoodBook == [readable |-> TRUE, why |-> "",
             sheets |-> <<[name |-> <<"2", "0", "2", "4">>, rows |-> <<FullHeader, DataRow>>]>>]
\* Scenario B's workbook: one sheet "Report" (no year), all columns.
ReportBook == [readable |-> TRUE, why |-> "",
               sheets |-> <<[name |-> <<"R", "e", "p", "o", "r", "t">>, rows |-> <<FullHeader, DataRow>>]>>]
\* A file XLSX.readFile throws on.
CorruptBook == [readable |-> FALSE, why |-> "Unsupported file", sheets |-> <<>>]

\* A file XLSX.readFile throws another error on (password-protected).
LockedBook == [readable |-> FALSE, why |-> "File is password-protected", sheets |-> <<>>]

Workbooks == [GoodBook |-> GoodBook, ReportBook |-> ReportBook, CorruptBook |-> CorruptBook,
              LockedBook |-> LockedBook]

\* A workbook is [readable |-> XLSX.readFile succeeds, why |-> the error it throws
\* otherwise, sheets |-> its sheets]; the state names workbooks by a short name.
Workbook(id) == Workbooks[id]

\* The try block of validateExcelFile without its catch block: what it returns
\* if the sheets of an unreadable file are taken to be none.
validateWorkbookWithoutCatch(book) ==
  IF Len(book.sheets) = 0
  THEN [valid |-> FALSE, errors |-> <<[kind |-> "nosheets"]>>]
  ELSE LET errors == allSheetErrors(book.sheets) IN
       IF Len(errors) = 0
       THEN [valid |-> TRUE, errors |-> <<>>]
       ELSE [valid |-> FALSE, errors |-> errors]

\* The try block of validateExcelFile, for the workbook XLSX.readFile finds,
\* and its catch block for a workbook XLSX.readFile throws on.
validateWorkbook(book) ==
  IF ~book.readable
  THEN [valid |-> FALSE,
        errors |-> <<[kind |-> IF book.why = "Unsupported file"
                               THEN "corrupted" ELSE "unreadable"]>>]
  ELSE IF Len(book.sheets) = 0
  THEN [valid |-> FALSE, errors |-> <<[kind |-> "nosheets"]>>]
  ELSE LET errors == allSheetErrors(book.sheets) IN
       IF Len(errors) = 0
       THEN [valid |-> TRUE, errors |-> <<>>]
       ELSE [valid |-> FALSE, errors |-> errors]

\* validateWorkbook of every workbook at hand (worked out once).
WorkbookVerdicts == [id \in DOMAIN Workbooks |-> validateWorkbook(Workbook(id))]

\* validateExcelFile(filePath), given what is on disk at filePath: absent (None,
\* XLSX.readFile throws ENOENT) or Some(workbook name).
validateExcelFile(onDisk) ==
  IF onDisk = None
  THEN [valid |-> FALSE, errors |-> <<[kind |-> "notfound"]>>]
  ELSE WorkbookVerdicts[onDisk[1]]

\* ---------------------------------------------------- submission validation
MAX_FILE_SIZE == 50 * 1024 * 1024
MIN_FILE_SIZE == 1024
ALLOWED_EXTENSIONS == {<<".", "x", "l", "s", "x">>, <<".", "x", "l", "s">>}
XlsxMime == "application/vnd.openxmlformats-officedocument.spreadsheetml.sheet"
XlsMime == "application/vnd.ms-excel"
validMimeTypes == {XlsxMime, XlsMime}

\* The characters of /[\x00-\x1F\x7F<>:"|?*]/ that the model's alphabet holds.
InvalidNameChars == {"\t", "<", ">", ":", "\"", "|", "?", "*"}
\* /<script|javascript:|onerror=|onload=/i
InjectionPatterns == {<<"<", "s", "c", "r", "i", "p", "t">>, <<"j", "a", "v", "a", "s", "c", "r", "i", "p", "t", ":">>,
                      <<"o", "n", "e", "r", "r", "o", "r", "=">>, <<"o", "n", "l", "o", "a", "d", "=">>}

startsWithAt(s, pat, i) ==
  /\ i + Len(pat) - 1 <= Len(s)
  /\ \A k \in 1 .. Len(pat) : s[i + k - 1] = pat[k]
contains(s, pat) == \E i \in 1 .. Len(s) : startsWithAt(s, pat, i)
startsWith(s, pat) == startsWithAt(s, pat, 1)

\* s.lastIndexOf('.'), 0-based, -1 when there is none
lastIndexOfDot(s) ==
  IF \E i \in 1 .. Len(s) : s[i] = "."
  THEN (CHOOSE i \in 1 .. Len(s) : s[i] = "." /\ \A j \in i + 1 .. Len(s) : s[j] # ".") - 1
  ELSE 0 - 1

clamp(i, n) == IF i < 0 THEN 0 ELSE IF i > n THEN n ELSE i
\* s.substring(a, b), 0-based, b exclusive: both clamped to [0, length], swapped if a > b
substring(s, a, b) ==
  LET x == clamp(a, Len(s))
      y == clamp(b, Len(s))
      lo == IF x <= y THEN x ELSE y
      hi == IF x <= y THEN y ELSE x
  IN SubSeq(s, lo + 1, hi)
substringFrom(s, a) == substring(s, a, Len(s))

countDots(s) == Cardinality({i \in 1 .. Len(s) : s[i] = "."})

\* A file is [name |-> string, size |-> bytes, type |-> MIME string,
\* book |-> the name of the workbook it holds].
validateFile(file) ==
  LET fileName == file.name
      fileExtension == toLowerCase(substringFrom(fileName, lastIndexOfDot(fileName)))
      err(cond, kind) == IF cond THEN <<kind>> ELSE <<>>
  IN err(file.size > MAX_FILE_SIZE, "too-large")
     \o err(file.size < MIN_FILE_SIZE, "too-small")
     \o err(\E i \in 1 .. Len(fileName) : fileName[i] \in InvalidNameChars, "invalid-chars")
     \o err(Len(fileName) > 255, "name-too-long")
     \o err(\E pat \in InjectionPatterns : contains(toLowerCase(fileName), pat), "malicious")
     \o err(fileExtension \notin ALLOWED_EXTENSIONS, "invalid-type")
     \o err(countDots(fileName) > 1, "multiple-extensions")
     \o err(startsWith(fileName, <<".">>), "hidden")
     \o err(file.type \notin validMimeTypes /\ file.type # "", "mime")

\* fileName.replace(/\.\./g, ''): matches are found left to right, not overlapping
RECURSIVE removeDotDot(_)
removeDotDot(s) ==
  LET at(i) == s[i] = "." /\ s[i + 1] = "."
  IN IF \E i \in 1 .. Len(s) - 1 : at(i)
     THEN LET first == CHOOSE i \in 1 .. Len(s) - 1 : at(i) /\ \A j \in 1 .. i - 1 : ~at(j)
          IN SubSeq(s, 1, first - 1) \o removeDotDot(SubSeq(s, first + 2, Len(s)))
     ELSE s

\* [a-zA-Z0-9._-]
IsSafeChar(c) == IsUpper(c) \/ IsLower(c) \/ c \in DigitChars \/ c \in {".", "_", "-"}
replaceUnsafe(s) == [i \in 1 .. Len(s) |-> IF IsSafeChar(s[i]) THEN s[i] ELSE "_"]

SANITIZED_MAX == 200

\* sanitizeFileName cutting a long name at 200 characters, its extension lost.
sanitizeFileNameCutsExtension(name) ==
  LET a == replaceUnsafe(removeDotDot(name))
      b == IF startsWith(a, <<".">>) THEN <<"f", "i", "l", "e", "_">> \o a ELSE a
  IN IF Len(b) > SANITIZED_MAX
     THEN substring(b, 0, SANITIZED_MAX)
     ELSE b

sanitizeFileName(name) ==
  LET a == replaceUnsafe(removeDotDot(name))
      b == IF startsWith(a, <<".">>) THEN <<"f", "i", "l", "e", "_">> \o a ELSE a
      ext == substringFrom(b, lastIndexOfDot(b))
  IN IF Len(b) > SANITIZED_MAX
     THEN substring(b, 0, SANITIZED_MAX - Len(ext)) \o ext
     ELSE b

\* ------------------------------------------------------- the files at hand
\* Scenario A's file.
GoodFile == [name |-> <<"A", "_", "2", "0", "2", "4", ".", "x", "l", "s", "x">>,
             size |-> 2048, type |-> XlsxMime, book |-> "GoodBook"]
\* Scenario B's file.
ReportFile == [name |-> <<"r", "e", "p", "o", "r", "t", ".", "x", "l", "s", "x">>,
               size |-> 2048, type |-> "", book |-> "ReportBook"]
\* A file whose name the sanitizer changes.
SpaceFile == [name |-> <<"a", " ", "b", ".", "x", "l", "s">>,
              size |-> 4096, type |-> XlsMime, book |-> "GoodBook"]
\* A file below MIN_FILE_SIZE.
TinyFile == [name |-> <<"t", ".", "x", "l", "s", "x">>,
             size |-> 100, type |-> XlsxMime, book |-> "GoodBook"]

\* A file above MAX_FILE_SIZE.
HugeFile == [name |-> <<"h", ".", "x", "l", "s", "x">>,
             size |-> MAX_FILE_SIZE + 1, type |-> XlsxMime, book |-> "GoodBook"]

\* A file that is not a workbook, under the name of Scenario A's file.
CorruptFile == [name |-> GoodFile.name, size |-> 2048, type |-> XlsxMime, book |-> "CorruptBook"]
\* A password-protected workbook, under the name of Scenario B's file.
LockedFile == [name |-> ReportFile.name, size |-> 2048, type |-> XlsxMime, book |-> "LockedBook"]

\* The files the user of AddRecord has at hand.
Files == {GoodFile, ReportFile, SpaceFile, TinyFile, HugeFile}

\* What another HTTP client posts: a file, or a request without one.
DirectFiles == {Some(GoodFile), Some(ReportFile), None}

\* What an HTTP client that skips the checks of AddRecord posts: files of any
\* size, under any name.
OpenFiles == {Some(TinyFile), Some(HugeFile), Some(SpaceFile), None}

\* What an HTTP client posts whose files XLSX.readFile cannot open, next to a
\* workbook it can open.
BrokenFiles == {Some(CorruptFile), Some(LockedFile), Some(GoodFile)}

\* The names a file can be staged under: as sent by a browser client
\* (sanitized) or by any other HTTP client (as is).
StagedNames == {f.name : f \in Files} \cup {sanitizeFileName(f.name) : f \in Files}

Requests == 1 .. MaxUploads

VARIABLES
  isProcessing,          \* server.js:17
  processingStartTime,   \* server.js:18, None or Some(ms)
  processingError,       \* server.js:19, None or Some(message)
  dataFolder,            \* the staging directory: name -> None or Some(content)
  reqs,                  \* the POST /upload requests
  runs,                  \* one record per call of runPythonScripts
  now,                   \* the wall clock, in ms
  statusResp,            \* the JSON GET /status has just sent (None once anything else ran)
  processingStage,       \* AddRecord state
  uploadStatus,          \* AddRecord state: the parts of the string shown
  currentStep,           \* AddRecord state
  validationErrors,      \* AddRecord state
  polling,               \* AddRecord: the timers of each call of pollBackendStatus
  input,                 \* the argument of a function called on its own
  output                 \* the values the function has returned for it, in order

server == <<isProcessing, processingStartTime, processingError, dataFolder, reqs, runs>>
client == <<processingStage, uploadStatus, currentStep, validationErrors, polling>>
vars == <<isProcessing, processingStartTime, processingError, dataFolder, reqs, runs,
          now, statusResp,
          processingStage, uploadStatus, currentStep, validationErrors, polling,
          input, output>>

\* A function of the program called on its own: argument and results.
pureCall == <<input, output>>

pipelineRun == <<isProcessing, processingStartTime, processingError>>

\* path.basename(scriptPath): the scripts live in process.cwd().
basename(script) == script

ExitMessage(script, code) == [kind |-> "exit", script |-> basename(script), code |-> code]
StartMessage(script) == [kind |-> "start", script |-> basename(script)]

\* A run: the request that started it, the scripts it has spawned, in order, the
\* close codes it has seen, and the state of the process spawned last:
\*   "running" | "spawnfail" (spawn failed, 'error' is due on the next tick)
\*   | "errored" ('error' emitted, 'close' still due) | "closed"
NewRun(q) == [req |-> q, invoked |-> <<>>, codes |-> <<>>, proc |-> "closed",
              finished |-> FALSE]

\* const process = spawn("python", [scriptPath]) of runSingleScript, for the
\* run's next script; ok: whether the process could be started.
Spawn(run, ok) ==
  [run EXCEPT !.invoked = Append(@, Chain[Len(@) + 1]),
              !.proc = IF ok THEN "running" ELSE "spawnfail"]

\* A POST /upload request: phase "none" | "sent" (on its way, multer receiving)
\* | "stored" (multer done) | "done" (answered) | "lost" (never reached the server);
\* seen: AddRecord has handled the outcome of its fetch.
NoRequest == [phase |-> "none", origin |-> "", file |-> None, resp |-> None, seen |-> FALSE]

\* The timers of one call of pollBackendStatus: interval (setInterval is
\* set), timeout (setTimeout is pending), inflight (the status JSONs that fetches
\* of the interval callback have been answered with and that it has not
\* handled yet, oldest first).
NoPoll == [interval |-> FALSE, timeout |-> FALSE, inflight |-> None]

ProgramInit ==
  /\ isProcessing = FALSE
  /\ processingStartTime = None
  /\ processingError = None
  /\ dataFolder = [n \in StagedNames |-> None]
  /\ reqs = [q \in Requests |-> NoRequest]
  /\ runs = <<>>
  /\ now = 0
  /\ statusResp = None
  /\ processingStage = ""
  /\ uploadStatus = <<"">>
  /\ currentStep = 0
  /\ validationErrors = <<>>
  /\ polling = [q \in Requests |-> NoPoll]

\* The server has started and the AddRecord page is mounted.
Init ==
  /\ ProgramInit
  /\ input = <<>>
  /\ output = <<>>

\* A failed spawn emits 'error' from process.nextTick: before the event loop
\* runs any other callback of the server.
TickPending == \E r \in 1 .. Len(runs) : runs[r].proc = "spawnfail"

\* ------------------------------------------------------------- the server
\* runPythonScripts without its reset of processingError.
runPythonScriptsKeepsError(q, ok) ==
  /\ isProcessing' = TRUE
  /\ processingStartTime' = Some(now)
  /\ runs' = Append(runs, Spawn(NewRun(q), ok))
  /\ UNCHANGED processingError

\* runPythonScripts waiting for script1 to exit (execSync) before it returns.
runPythonScriptsWaits(q, ok) ==
  /\ isProcessing' = TRUE
  /\ processingStartTime' = Some(now)
  /\ processingError' = None
  /\ runs' = Append(runs, Spawn([Spawn(NewRun(q), TRUE) EXCEPT !.codes = <<0>>], ok))

\* runPythonScripts keeping the start time of an earlier run.
runPythonScriptsKeepsStartTime(q, ok) ==
  /\ isProcessing' = TRUE
  /\ processingStartTime' = IF processingStartTime = None THEN Some(now) ELSE processingStartTime
  /\ processingError' = None
  /\ runs' = Append(runs, Spawn(NewRun(q), ok))

\* runPythonScripts(), called for request q; ok: whether script1 could be spawned.
runPythonScripts(q, ok) ==
  /\ isProcessing' = TRUE
  /\ processingStartTime' = Some(now)
  /\ processingError' = None
  /\ runs' = Append(runs, Spawn(NewRun(q), ok))

\* The last onSuccess callback without its isProcessing = false.
onSuccessKeepsProcessing(r, ok) ==
  IF Len(runs[r].invoked) < Len(Chain)
  THEN /\ runs' = [runs EXCEPT ![r] = Spawn([@ EXCEPT !.codes = Append(@, 0)], ok)]
       /\ UNCHANGED pipelineRun
  ELSE /\ runs' = [runs EXCEPT ![r].codes = Append(@, 0), ![r].proc = "closed",
                               ![r].finished = TRUE]
       /\ UNCHANGED pipelineRun

\* The onSuccess callback of run r's k-th runSingleScript: the next
\* runSingleScript, or the end of the chain.
onSuccess(r, ok) ==
  IF Len(runs[r].invoked) < Len(Chain)
  THEN /\ runs' = [runs EXCEPT ![r] = Spawn([@ EXCEPT !.codes = Append(@, 0)], ok)]
       /\ UNCHANGED pipelineRun
  ELSE /\ runs' = [runs EXCEPT ![r].codes = Append(@, 0), ![r].proc = "closed",
                               ![r].finished = TRUE]
       /\ isProcessing' = FALSE
       /\ UNCHANGED <<processingStartTime, processingError>>

\* The close handler without isProcessing = false in its failure branch.
onCloseKeepsProcessing(r, code, ok) ==
  IF code = 0
  THEN onSuccess(r, ok)
  ELSE /\ processingError' = Some(ExitMessage(runs[r].invoked[Len(runs[r].invoked)], code))
       /\ runs' = [runs EXCEPT ![r].codes = Append(@, code), ![r].proc = "closed"]
       /\ UNCHANGED <<isProcessing, processingStartTime>>

\* process.on("close", (code) => ...) of the process run r spawned last.
onClose(r, code, ok) ==
  IF code = 0
  THEN onSuccess(r, ok)
  ELSE /\ isProcessing' = FALSE
       /\ processingError' = Some(ExitMessage(runs[r].invoked[Len(runs[r].invoked)], code))
       /\ runs' = [runs EXCEPT ![r].codes = Append(@, code), ![r].proc = "closed"]
       /\ UNCHANGED processingStartTime

\* process.on("error", (error) => ...)
onError(r) ==
  /\ isProcessing' = FALSE
  /\ processingError' = Some(StartMessage(runs[r].invoked[Len(runs[r].invoked)]))
  /\ runs' = [runs EXCEPT ![r].proc = "errored"]
  /\ UNCHANGED processingStartTime

\* A stage process that started closes with an exit code.
StageClose(r) ==
  /\ ~TickPending
  /\ runs[r].proc = "running"
  /\ \E code \in ExitCodes, ok \in BOOLEAN : onClose(r, code, ok)
  /\ statusResp' = None
  /\ UNCHANGED <<dataFolder, reqs, now, client, pureCall>>

\* The 'error' event of a process that could not be spawned (next tick).
StageError(r) ==
  /\ runs[r].proc = "spawnfail"
  /\ onError(r)
  /\ statusResp' = None
  /\ UNCHANGED <<dataFolder, reqs, now, client, pureCall>>

\* The 'close' event Node emits after the 'error' of a failed spawn.
StageCloseAfterError(r) ==
  /\ ~TickPending
  /\ runs[r].proc = "errored"
  /\ onClose(r, SpawnFailCode, TRUE)
  /\ statusResp' = None
  /\ UNCHANGED <<dataFolder, reqs, now, client, pureCall>>

\* The status JSON with processingTime left in milliseconds.
StatusResponseMillis ==
  LET processingTime == IF processingStartTime # None
                        THEN now - processingStartTime[1]
                        ELSE 0
  IN [isProcessing |-> isProcessing,
      processingTime |-> processingTime,
      processingStartTime |-> processingStartTime,
      processingError |-> processingError,
      status |-> IF isProcessing THEN "processing"
                 ELSE IF processingError # None THEN "error" ELSE "idle"]

\* The body of app.get("/status"): the JSON it sends.
StatusResponse ==
  LET processingTime == IF processingStartTime # None
                        THEN (now - processingStartTime[1]) \div 1000
                        ELSE 0
  IN [isProcessing |-> isProcessing,
      processingTime |-> processingTime,
      processingStartTime |-> processingStartTime,
      processingError |-> processingError,
      status |-> IF isProcessing THEN "processing"
                 ELSE IF processingError # None THEN "error" ELSE "idle"]

\* GET /status clearing the error once it has reported it.
GetStatusClearsError ==
  /\ ~TickPending
  /\ statusResp' = Some(StatusResponse)
  /\ processingError' = None
  /\ UNCHANGED <<isProcessing, processingStartTime, dataFolder, reqs, runs, now, client, pureCall>>

\* app.get("/status")
GetStatus ==
  /\ ~TickPending
  /\ statusResp' = Some(StatusResponse)
  /\ UNCHANGED <<server, now, client, pureCall>>

\* app.get("/test")
GetTest ==
  /\ ~TickPending
  /\ statusResp' = None
  /\ UNCHANGED <<server, now, client, pureCall>>

\* A POST /upload from an HTTP client other than AddRecord: any file, under its
\* own name, or no file at all.
DirectPost(q) ==
  /\ reqs[q].phase = "none"
  /\ \A p \in 1 .. q - 1 : reqs[p].phase # "none"
  /\ \E f \in DirectFiles :
       reqs' = [reqs EXCEPT ![q] = [phase |-> "sent", origin |-> "direct",
                                    file |-> f, resp |-> None, seen |-> FALSE]]
  /\ statusResp' = None
  /\ UNCHANGED <<pipelineRun, dataFolder, runs, now, client, pureCall>>

\* A POST /upload from an HTTP client that runs none of AddRecord's checks.
OpenPost(q) ==
  /\ reqs[q].phase = "none"
  /\ \A p \in 1 .. q - 1 : reqs[p].phase # "none"
  /\ \E f \in OpenFiles :
       reqs' = [reqs EXCEPT ![q] = [phase |-> "sent", origin |-> "direct",
                                    file |-> f, resp |-> None, seen |-> FALSE]]
  /\ statusResp' = None
  /\ UNCHANGED <<pipelineRun, dataFolder, runs, now, client, pureCall>>

\* upload.single("file"): multer's diskStorage writes the file into the data
\* folder under file.originalname, replacing what is there.
MulterStore(q) ==
  /\ ~TickPending
  /\ reqs[q].phase = "sent"
  /\ reqs' = [reqs EXCEPT ![q].phase = "stored"]
  /\ dataFolder' = IF reqs[q].file = None
                   THEN dataFolder
                   ELSE [dataFolder EXCEPT ![reqs[q].file[1].name] = Some(reqs[q].file[1].book)]
  /\ statusResp' = None
  /\ UNCHANGED <<pipelineRun, runs, now, client, pureCall>>

\* No unlink at all.
unlinkSkipped(folder, path) == folder

\* fs.unlinkSync(filePath) inside try/catch
unlinkSync(folder, path) == [folder EXCEPT ![path] = None]

\* The handler of app.post("/upload", ...), for request q.
UploadHandler(q) ==
  /\ ~TickPending
  /\ reqs[q].phase = "stored"
  /\ IF reqs[q].file = None
     THEN /\ reqs' = [reqs EXCEPT ![q].phase = "done",
                        ![q].resp = Some([code |-> 400, message |-> "No file uploaded",
                                          error |-> "No file received",
                                          validationErrors |-> None, filename |-> None])]
          /\ UNCHANGED <<pipelineRun, dataFolder, runs>>
     ELSE LET filePath == reqs[q].file[1].name
              validation == validateExcelFile(dataFolder[filePath])
          IN IF ~validation.valid
             THEN /\ dataFolder' = unlinkSync(dataFolder, filePath)
                  /\ reqs' = [reqs EXCEPT ![q].phase = "done",
                                ![q].resp = Some([code |-> 400,
                                                  message |-> "Excel file validation failed",
                                                  error |-> "File does not meet requirements",
                                                  validationErrors |-> Some(validation.errors),
                                                  filename |-> None])]
                  /\ UNCHANGED <<pipelineRun, runs>>
             ELSE /\ reqs' = [reqs EXCEPT ![q].phase = "done",
                                ![q].resp = Some([code |-> 200,
                                                  message |-> "File validated successfully. Processing started...",
                                                  error |-> "",
                                                  validationErrors |-> None,
                                                  filename |-> Some(filePath)])]
                  /\ \E ok \in BOOLEAN : runPythonScripts(q, ok)
                  /\ UNCHANGED dataFolder
  /\ statusResp' = None
  /\ UNCHANGED <<now, client, pureCall>>

\* Time passes.
Tick ==
  /\ \E d \in TickSteps : now + d <= MaxTicks * d /\ now' = now + d
  /\ statusResp' = None
  /\ UNCHANGED <<server, client, pureCall>>

\* What the server does for the uploads it has been sent, as time passes.
UploadSteps ==
  \/ \E q \in Requests : MulterStore(q)
  \/ \E q \in Requests : UploadHandler(q)
  \/ \E r \in 1 .. Len(runs) : StageClose(r)
  \/ \E r \in 1 .. Len(runs) : StageError(r)
  \/ \E r \in 1 .. Len(runs) : StageCloseAfterError(r)
  \/ Tick

\* What the server does for the requests it has been sent.
ServerSteps ==
  \/ UploadSteps
  \/ GetStatus
  \/ GetTest

\* The server under arbitrary HTTP clients.
Next ==
  \/ \E q \in Requests : DirectPost(q)
  \/ ServerSteps

Spec == Init /\ [][Next]_vars

\* The server under HTTP clients that post what AddRecord would refuse to send.
OpenNext ==
  \/ \E q \in Requests : OpenPost(q)
  \/ ServerSteps

OpenSpec == Init /\ [][OpenNext]_vars

\* The upload route and the stage callbacks, without the clock and the status
\* route.
PipelineNext ==
  \/ \E q \in Requests : DirectPost(q)
  \/ \E q \in Requests : MulterStore(q)
  \/ \E q \in Requests : UploadHandler(q)
  \/ \E r \in 1 .. Len(runs) : StageClose(r)
  \/ \E r \in 1 .. Len(runs) : StageError(r)
  \/ \E r \in 1 .. Len(runs) : StageCloseAfterError(r)

\* The server handles every request it has received, and every stage process
\* that was invoked emits its events: 'close', or 'error' and then 'close'.
PipelineFairness ==
  /\ WF_vars(\E q \in Requests : MulterStore(q))
  /\ WF_vars(\E q \in Requests : UploadHandler(q))
  /\ WF_vars(\E r \in 1 .. Len(runs) : StageClose(r))
  /\ WF_vars(\E r \in 1 .. Len(runs) : StageError(r))
  /\ WF_vars(\E r \in 1 .. Len(runs) : StageCloseAfterError(r))

\* The server where every stage process closes.
FairSpec == Init /\ [][PipelineNext]_vars /\ PipelineFairness

\* A POST /upload of a file that may be one XLSX.readFile cannot open.
BrokenPost(q) ==
  /\ reqs[q].phase = "none"
  /\ \A p \in 1 .. q - 1 : reqs[p].phase # "none"
  /\ \E f \in BrokenFiles :
       reqs' = [reqs EXCEPT ![q] = [phase |-> "sent", origin |-> "direct",
                                    file |-> f, resp |-> None, seen |-> FALSE]]
  /\ statusResp' = None
  /\ UNCHANGED <<pipelineRun, dataFolder, runs, now, client, pureCall>>

\* The upload route and the stage callbacks under HTTP clients that post files
\* the server cannot open.
BrokenNext ==
  \/ \E q \in Requests : BrokenPost(q)
  \/ \E q \in Requests : MulterStore(q)
  \/ \E q \in Requests : UploadHandler(q)
  \/ \E r \in 1 .. Len(runs) : StageClose(r)
  \/ \E r \in 1 .. Len(runs) : StageError(r)
  \/ \E r \in 1 .. Len(runs) : StageCloseAfterError(r)

BrokenSpec == Init /\ [][BrokenNext]_vars

\* ---------------------------------------------------- the AddRecord client
\* react-dropzone's accept check with the accept map of useDropzone: the
\* file's MIME type is one of the keys or its name ends in one of the extensions.
fileAccepted(file) ==
  \/ file.type \in validMimeTypes
  \/ \E ext \in ALLOWED_EXTENSIONS :
       /\ Len(file.name) >= Len(ext)
       /\ startsWithAt(toLowerCase(file.name), ext, Len(file.name) - Len(ext) + 1)

\* validator: (file) => ... of useDropzone
validator(file) ==
  LET errors == validateFile(file)
  IN IF Len(errors) > 0
     THEN <<[code |-> "validation-failed", message |-> errors]>>
     ELSE <<>>

maxFiles == 1

\* The errors react-dropzone attaches to one dropped file (accept, maxSize, validator).
dropzoneErrors(file) ==
  (IF fileAccepted(file) THEN <<>> ELSE <<[code |-> "file-invalid-type", message |-> <<>>]>>)
  \o (IF file.size > MAX_FILE_SIZE
      THEN <<[code |-> "file-too-large", message |-> <<>>]>> ELSE <<>>)
  \o validator(file)

\* react-dropzone's split of a drop into acceptedFiles and fileRejections.
dropzoneSplit(files) ==
  LET good(f) == dropzoneErrors(f) = <<>>
      bad(f) == ~good(f)
      accepted == SelectSeq(files, good)
      failing == SelectSeq(files, bad)
      rejected == [i \in 1 .. Len(failing) |->
                     [file |-> failing[i], errors |-> dropzoneErrors(failing[i])]]
      tooMany == [i \in 1 .. Len(accepted) |->
                    [file |-> accepted[i],
                     errors |-> <<[code |-> "too-many-files", message |-> <<>>]>>]]
  IN IF Len(accepted) > maxFiles
     THEN [accepted |-> <<>>, rejected |-> rejected \o tooMany]
     ELSE [accepted |-> accepted, rejected |-> rejected]

\* The strings onDrop shows for the rejected files.
RECURSIVE rejectionMessages(_)
rejectionMessages(rejectedFiles) ==
  IF rejectedFiles = <<>> THEN <<>>
  ELSE LET r == Head(rejectedFiles)
           one(e) == IF e.code = "validation-failed"
                     THEN [text |-> "validation-failed", detail |-> e.message]
                     ELSE [text |-> e.code, detail |-> r.file.name]
       IN [i \in 1 .. Len(r.errors) |-> one(r.errors[i])]
          \o rejectionMessages(Tail(rejectedFiles))

FreeRequest(q) == reqs[q].phase = "none" /\ \A p \in 1 .. q - 1 : reqs[p].phase # "none"

\* What the user can drop at once.
Drops == {<<f>> : f \in Files} \cup {<<GoodFile, SpaceFile>>, <<GoodFile, TinyFile>>}

\* validateFile, sanitizeFileName and the dropzone's split for the files and
\* drops at hand (worked out once).
FileChecks == [f \in Files |-> [errors |-> validateFile(f),
                                sanitized |-> sanitizeFileName(f.name)]]
DropSplits == [files \in Drops |-> dropzoneSplit(files)]

\* onDrop, the branch for rejected files: show why, and return.
onDropRejected(rejectedFiles) ==
  /\ validationErrors' = rejectionMessages(rejectedFiles)
  /\ processingStage' = "error"
  /\ uploadStatus' = <<"File validation failed">>
  /\ UNCHANGED <<currentStep, reqs>>

\* onDrop, after resetStatus(): the body of acceptedFiles.forEach for the one
\* file maxFiles lets through.
onDropAccepted(acceptedFiles) ==
  LET file == acceptedFiles[1]
      validationErrorsList == FileChecks[file].errors
      sanitizedFileName == FileChecks[file].sanitized
      fileToUpload == [file EXCEPT !.name = sanitizedFileName]
  IN IF Len(validationErrorsList) > 0
     THEN /\ validationErrors' = [i \in 1 .. Len(validationErrorsList) |->
                                    [text |-> validationErrorsList[i], detail |-> <<>>]]
          /\ processingStage' = "error"
          /\ uploadStatus' = <<"File validation failed">>
          /\ currentStep' = 0
          /\ UNCHANGED reqs
     ELSE /\ \E q \in Requests :
               /\ FreeRequest(q)
               /\ reqs' = [reqs EXCEPT ![q] = [phase |-> "sent", origin |-> "client",
                                               file |-> Some(fileToUpload),
                                               resp |-> None, seen |-> FALSE]]
          /\ validationErrors' = <<>>
          /\ processingStage' = "uploading"
          /\ currentStep' = 1
          /\ uploadStatus' = <<"Uploading file...">>

\* onDrop with the return of its rejected-files branch left out: it goes on to
\* the accepted files.
onDropFallsThrough(acceptedFiles, rejectedFiles) ==
  IF Len(acceptedFiles) > 0
  THEN onDropAccepted(acceptedFiles)
  ELSE IF Len(rejectedFiles) > 0
  THEN onDropRejected(rejectedFiles)
  ELSE UNCHANGED <<processingStage, uploadStatus, currentStep, validationErrors, reqs>>

\* onDrop(acceptedFiles, rejectedFiles)
onDrop(acceptedFiles, rejectedFiles) ==
  IF Len(rejectedFiles) > 0
  THEN onDropRejected(rejectedFiles)
  ELSE IF Len(acceptedFiles) = 0
  THEN UNCHANGED <<processingStage, uploadStatus, currentStep, validationErrors, reqs>>
  ELSE onDropAccepted(acceptedFiles)

\* The user drops files on the dropzone, which is disabled while
\* processingStage is "uploading" or "processing".
DropFiles(files) ==
  /\ processingStage \notin {"uploading", "processing"}
  /\ LET split == DropSplits[files] IN onDrop(split.accepted, split.rejected)
  /\ UNCHANGED <<pipelineRun, dataFolder, runs, now, statusResp, polling, pureCall>>

Drop == \E files \in Drops : DropFiles(files)

\* pollBackendStatus(), called for request q: setInterval and setTimeout.
pollBackendStatus(q) ==
  polling' = [polling EXCEPT ![q] = [interval |-> TRUE, timeout |-> TRUE, inflight |-> None]]

\* The .then chain of the fetch of request q, once the server has answered.
ClientResponse(q) ==
  /\ reqs[q].origin = "client" /\ reqs[q].phase = "done" /\ ~reqs[q].seen
  /\ reqs' = [reqs EXCEPT ![q].seen = TRUE]
  /\ LET data == reqs[q].resp[1] IN
     IF data.code # 200
     THEN /\ validationErrors' = (IF data.validationErrors # None
                                  THEN [i \in 1 .. Len(data.validationErrors[1]) |->
                                          [text |-> "backend", detail |-> data.validationErrors[1][i]]]
                                  ELSE <<[text |-> "backend", detail |-> data.error]>>)
          /\ processingStage' = "error"
          /\ uploadStatus' = <<"File validation failed">>
          /\ UNCHANGED <<currentStep, polling>>
     ELSE /\ processingStage' = "processing"
          /\ currentStep' = 2
          /\ uploadStatus' = <<"Processing data through pipeline...">>
          /\ pollBackendStatus(q)
          /\ UNCHANGED validationErrors
  /\ UNCHANGED <<pipelineRun, dataFolder, runs, now, statusResp, pureCall>>

\* The .catch of the fetch: the request never reached the server.
ClientFetchFail(q) ==
  /\ reqs[q].origin = "client" /\ reqs[q].phase = "sent"
  /\ reqs' = [reqs EXCEPT ![q].phase = "lost", ![q].seen = TRUE]
  /\ processingStage' = "error"
  /\ uploadStatus' = <<"Upload failed">>
  /\ validationErrors' = <<[text |-> "Cannot connect to server", detail |-> <<>>]>>
  /\ UNCHANGED <<pipelineRun, dataFolder, runs, now, statusResp, currentStep, polling, pureCall>>

\* The interval callback of request q's polling, up to await res.json(): GET
\* /status is answered by the server, no earlier response waiting.
PollFetch(q) ==
  /\ ~TickPending
  /\ polling[q].interval
  /\ polling[q].inflight = None
  /\ polling' = [polling EXCEPT ![q].inflight = Some(StatusResponse)]
  /\ statusResp' = Some(StatusResponse)
  /\ UNCHANGED <<server, now, processingStage, uploadStatus, currentStep,
                 validationErrors, pureCall>>

\* The interval callback without clearInterval in its error branch.
PollResponseKeepsInterval(q) ==
  /\ polling[q].inflight # None
  /\ LET statusData == polling[q].inflight[1] IN
     IF statusData.status = "error"
     THEN /\ polling' = [polling EXCEPT ![q].inflight = Tail(@)]
          /\ processingStage' = "error"
          /\ uploadStatus' = <<"Processing failed: ",
                               IF statusData.processingError # None
                               THEN statusData.processingError[1] ELSE "Unknown error">>
          /\ UNCHANGED currentStep
     ELSE IF ~statusData.isProcessing /\ statusData.status = "idle"
     THEN /\ polling' = [polling EXCEPT ![q].inflight = Tail(@), ![q].interval = FALSE]
          /\ processingStage' = "complete"
          /\ currentStep' = 4
          /\ uploadStatus' = <<"Pipeline completed successfully!">>
     ELSE /\ polling' = [polling EXCEPT ![q].inflight = Tail(@)]
          /\ UNCHANGED <<processingStage, currentStep, uploadStatus>>
  /\ UNCHANGED <<server, now, statusResp, validationErrors, pureCall>>

\* The interval callback showing the first progress label whatever the
\* processingTime.
PollResponseOneLabel(q) ==
  /\ polling[q].inflight # None
  /\ LET statusData == polling[q].inflight[1] IN
     IF statusData.status = "error"
     THEN /\ polling' = [polling EXCEPT ![q].inflight = Tail(@), ![q].interval = FALSE]
          /\ processingStage' = "error"
          /\ uploadStatus' = <<"Processing failed: ",
                               IF statusData.processingError # None
                               THEN statusData.processingError[1] ELSE "Unknown error">>
          /\ UNCHANGED currentStep
     ELSE IF ~statusData.isProcessing /\ statusData.status = "idle"
     THEN /\ polling' = [polling EXCEPT ![q].inflight = Tail(@), ![q].interval = FALSE]
          /\ processingStage' = "complete"
          /\ currentStep' = 4
          /\ uploadStatus' = <<"Pipeline completed successfully!">>
     ELSE IF statusData.isProcessing
     THEN /\ polling' = [polling EXCEPT ![q].inflight = Tail(@)]
          /\ currentStep' = 2
          /\ uploadStatus' = <<"Processing data through pipeline...">>
          /\ UNCHANGED processingStage
     ELSE /\ polling' = [polling EXCEPT ![q].inflight = Tail(@)]
          /\ UNCHANGED <<processingStage, currentStep, uploadStatus>>
  /\ UNCHANGED <<server, now, statusResp, validationErrors, pureCall>>

\* The interval callback after await res.json(), with the status it got: the
\* response that has waited longest is handled.
PollResponse(q) ==
  /\ polling[q].inflight # None
  /\ LET statusData == polling[q].inflight[1] IN
     IF statusData.status = "error"
     THEN /\ polling' = [polling EXCEPT ![q].inflight = Tail(@), ![q].interval = FALSE]
          /\ processingStage' = "error"
          /\ uploadStatus' = <<"Processing failed: ",
                               IF statusData.processingError # None
                               THEN statusData.processingError[1] ELSE "Unknown error">>
          /\ UNCHANGED currentStep
     ELSE IF ~statusData.isProcessing /\ statusData.status = "idle"
     THEN /\ polling' = [polling EXCEPT ![q].inflight = Tail(@), ![q].interval = FALSE]
          /\ processingStage' = "complete"
          /\ currentStep' = 4
          /\ uploadStatus' = <<"Pipeline completed successfully!">>
     ELSE IF statusData.isProcessing
     THEN /\ polling' = [polling EXCEPT ![q].inflight = Tail(@)]
          /\ currentStep' = IF statusData.processingTime < 3 THEN 2 ELSE 3
          /\ uploadStatus' = IF statusData.processingTime < 3
                             THEN <<"Processing data through pipeline...">>
                             ELSE IF statusData.processingTime < 6
                             THEN <<"Converting to GeoJSON...">>
                             ELSE <<"Still processing... ", statusData.processingTime>>
          /\ UNCHANGED processingStage
     ELSE /\ polling' = [polling EXCEPT ![q].inflight = Tail(@)]
          /\ UNCHANGED <<processingStage, currentStep, uploadStatus>>
  /\ UNCHANGED <<server, now, statusResp, validationErrors, pureCall>>

\* The interval fires again one second later while an earlier callback still
\* awaits its response (the callback is async, setInterval does not wait for
\* it): another GET /status is answered.
PollFetchOverlapping(q) ==
  /\ ~TickPending
  /\ polling[q].interval
  /\ polling[q].inflight # None
  /\ Len(polling[q].inflight) < MaxInflight
  /\ polling' = [polling EXCEPT ![q].inflight = Append(@, StatusResponse)]
  /\ statusResp' = Some(StatusResponse)
  /\ UNCHANGED <<server, now, processingStage, uploadStatus, currentStep,
                 validationErrors, pureCall>>

\* The catch of the interval callback: the fetch failed or answered not ok.
PollFetchFail(q) ==
  /\ polling[q].interval
  /\ polling[q].inflight = None
  /\ polling' = [polling EXCEPT ![q].interval = FALSE]
  /\ processingStage' = "error"
  /\ uploadStatus' = <<"Failed to check processing status. Please check backend server.">>
  /\ UNCHANGED <<server, now, statusResp, currentStep, validationErrors, pureCall>>

\* The processingStage the callback of setTimeout reads: onDrop is
\* useCallback(..., []), so the pollBackendStatus it calls is the one of the
\* first render and closes over that render's processingStage, useState("").
processingStageAtMount == ""

\* The callback of setTimeout(..., 300000) of request q's polling. The clock of
\* the model stops short of five minutes: the callback can run at any time
\* while the timer is pending.
PollTimeout(q) ==
  /\ polling[q].timeout
  /\ polling' = [polling EXCEPT ![q].timeout = FALSE, ![q].interval = FALSE]
  /\ IF processingStageAtMount = "processing"
     THEN /\ processingStage' = "error"
          /\ uploadStatus' = <<"Processing timeout. Please try again.">>
     ELSE UNCHANGED <<processingStage, uploadStatus>>
  /\ UNCHANGED <<server, now, statusResp, currentStep, validationErrors, pureCall>>

ClientNext ==
  \/ Drop
  \/ \E q \in Requests : ClientResponse(q)
  \/ \E q \in Requests : ClientFetchFail(q)

\* The timers pollBackendStatus has set.
PollSteps ==
  \/ \E q \in Requests : PollFetch(q)
  \/ \E q \in Requests : PollResponse(q)
  \/ \E q \in Requests : PollFetchFail(q)
  \/ \E q \in Requests : PollTimeout(q)

\* The uploads of the AddRecord page, with the server.
ClientServerNext == ClientNext \/ ServerSteps

ClientSpec == Init /\ [][ClientServerNext]_vars

\* A drop that leaves the page with at most MaxPolled uploads sent.
PollDrop ==
  /\ Drop
  /\ Cardinality({q \in Requests : reqs'[q].phase # "none"}) <= MaxPolled

\* The AddRecord page, its uploads and its polling, as the server's only
\* client: every GET /status is one of the page's polls.
PollNext ==
  \/ PollDrop
  \/ \E q \in Requests : ClientResponse(q)
  \/ \E q \in Requests : ClientFetchFail(q)
  \/ PollSteps
  \/ UploadSteps

PollSpec == Init /\ [][PollNext]_vars

\* The first threshold of the progress labels, processingTime < 3, in ms.
SlowStep == 3000

\* Three seconds pass.
SlowTick ==
  /\ now + SlowStep <= MaxWait * SlowStep
  /\ now' = now + SlowStep
  /\ statusResp' = None
  /\ UNCHANGED <<server, client, pureCall>>

\* The page and the server over the first seconds of a run, every upload
\* reaching the server: the five-minute timer of the polling is not due.
SlowPollNext ==
  \/ PollDrop
  \/ \E q \in Requests : ClientResponse(q)
  \/ \E q \in Requests : PollFetch(q)
  \/ \E q \in Requests : PollResponse(q)
  \/ \E q \in Requests : PollFetchFail(q)
  \/ \E q \in Requests : MulterStore(q)
  \/ \E q \in Requests : UploadHandler(q)
  \/ \E r \in 1 .. Len(runs) : StageClose(r)
  \/ \E r \in 1 .. Len(runs) : StageError(r)
  \/ \E r \in 1 .. Len(runs) : StageCloseAfterError(r)
  \/ SlowTick

SlowPollSpec == Init /\ [][SlowPollNext]_vars

\* The page and the server with status requests slower than the poll
\* interval.
OverlapPollNext ==
  \/ PollNext
  \/ \E q \in Requests : PollFetchOverlapping(q)

OverlapPollSpec == Init /\ [][OverlapPollNext]_vars

\* ------------------------------------------- sanitizeFileName on its own
repeat(c, n) == [i \in 1 .. n |-> c]

\* The file names sanitizeFileName is called with: short and longer than 200
\* characters, with and without '..', a leading dot, characters to replace.
\* A name is a head, a stem of a's, a middle, a tail of b's and an extension.
FileNames ==
  LET NameHeads == {<<>>, <<".", ".">>, <<".">>, <<"a", ".", ".", "/">>}
      StemLens == {0, 2, SANITIZED_MAX - 7, SANITIZED_MAX - 6}
      NameMids == {<<>>, <<".">>, <<" ">>}
      TailLens == {0, MaxTail}
      NameExts == {<<>>, <<".", "x", "l", "s", "x">>, <<".", "X", "L", "S">>}
  IN {h \o repeat("a", n) \o m \o repeat("b", k) \o e :
        h \in NameHeads, n \in StemLens, m \in NameMids, k \in TailLens, e \in NameExts}

SanitizeInit ==
  /\ ProgramInit
  /\ input \in FileNames
  /\ output = <<>>

\* sanitizeFileName(input)
Sanitize ==
  /\ Len(output) = 0
  /\ output' = <<sanitizeFileName(input)>>
  /\ UNCHANGED <<server, now, statusResp, client, input>>

\* sanitizeFileName of the name it returned
SanitizeAgain ==
  /\ Len(output) = 1
  /\ output' = Append(output, sanitizeFileName(output[1]))
  /\ UNCHANGED <<server, now, statusResp, client, input>>

SanitizeNext == Sanitize \/ SanitizeAgain

SanitizeSpec == SanitizeInit /\ [][SanitizeNext]_vars

\* ------------------------------------------- validateExcelFile on its own
victimkilled == SEVERITY_CALC_COLUMNS[4]

\* The header row without the victimkilled column.
HeaderWithoutVictimKilled ==
  LET other(col) == col # victimkilled IN SelectSeq(ALL_REQUIRED_COLUMNS, other)

SheetNames == {
  <<"2", "0", "2", "3">>,
  <<"A", "c", "c", "i", "d", "e", "n", "t", "s", "_", "2", "0", "2", "4">>,
  <<"D", "a", "t", "a", "_", "2", "0", "2", "5">>,
  <<"D", "a", "t", "a", " ", "2", "0", "2", "5">>,
  <<"R", "e", "p", "o", "r", "t">>,
  <<"1", "2", "0", "2", "4">>,
  <<"1", "8", "9", "9">>,
  <<"2", "1", "0", "0">>,
  <<"F", "Y", "2", "0", "2", "4", "-", "Q", "1">>,
  <<"2", "0">>}

\* Header cells a user may write for the victimkilled column.
HeaderSpellings == {
  <<"v", "i", "c", "t", "i", "m", "k", "i", "l", "l", "e", "d">>,
  <<" ", "V", "i", "c", "t", "i", "m", "K", "i", "l", "l", "e", "d", " ">>,
  <<"v", "i", "c", "t", "i", "m", "-", "k", "i", "l", "l", "e", "d">>,
  <<"V", "I", "C", "T", "I", "M", ".", "K", "I", "L", "L", "E", "D">>,
  <<"V", "i", "c", "t", "i", "m", " ", "K", "i", "l", "l", "e", "d">>,
  <<"v", "i", "c", "t", "i", "m", "_", "k", "i", "l", "l", "e", "d">>,
  <<"k", "i", "l", "l", "e", "d">>}

\* The rows of a sheet: none, a header row only, header and data; with all
\* columns, without victimkilled, with the basic columns only.
SheetRows == {<<>>, <<FullHeader>>, <<FullHeader, DataRow>>,
              <<HeaderWithoutVictimKilled>>, <<HeaderWithoutVictimKilled, DataRow>>,
              <<REQUIRED_COLUMNS, DataRow>>}

\* The workbooks validateExcelFile is called with, as their sheets: every
\* one-sheet workbook, and two with two sheets.
SheetLists ==
  {<<[name |-> n, rows |-> r]>> : n \in SheetNames, r \in SheetRows}
  \cup {<<[name |-> <<"2", "0", "2", "3">>, rows |-> <<HeaderWithoutVictimKilled, DataRow>>],
          [name |-> <<"R", "e", "p", "o", "r", "t">>, rows |-> <<FullHeader, DataRow>>]>>,
        <<[name |-> <<"A", "c", "c", "i", "d", "e", "n", "t", "s", "_", "2", "0", "2", "4">>, rows |-> <<FullHeader, DataRow>>],
          [name |-> <<"D", "a", "t", "a", "_", "2", "0", "2", "5">>, rows |-> <<FullHeader>>]>>}

ValidatorInit ==
  /\ ProgramInit
  /\ input \in SheetLists
  /\ output = <<>>

\* validateExcelFile(filePath) for a readable workbook with the sheets of input
Validate ==
  /\ Len(output) = 0
  /\ output' = <<validateWorkbook([readable |-> TRUE, why |-> "", sheets |-> input])>>
  /\ UNCHANGED <<server, now, statusResp, client, input>>

\* The user adds a cell to the header row of sheet k, a row one cell short, of
\* a workbook that has been validated, to upload it again.
AddHeader(k, h) ==
  /\ Len(output) = 1
  /\ Len(input[k].rows) >= 1
  /\ Len(input[k].rows[1]) = Len(ALL_REQUIRED_COLUMNS) - 1
  /\ input' = [input EXCEPT ![k].rows[1] = Append(@, h)]
  /\ output' = <<>>
  /\ UNCHANGED <<server, now, statusResp, client>>

ValidatorNext ==
  \/ Validate
  \/ \E k \in 1 .. Len(input), h \in HeaderSpellings : AddHeader(k, h)

ValidatorSpec == ValidatorInit /\ [][ValidatorNext]_vars

\* =================================================================== claims
LastCode(run) == run.codes[Len(run.codes)]
\* Run r's process closes in this step.
Closes(r) ==
  /\ r <= Len(runs)
  /\ runs[r].proc \in {"running", "errored"}
  /\ Len(runs'[r].codes) = Len(runs[r].codes) + 1

\* C1: when stage k (not the last) of a run closes with a nonzero exit code, the
\* run invokes no later stage, then or ever; isProcessing is false after the
\* close; and GET /status, asked then, answers status "error" with a
\* processingError that names stage k's script.
C1_FailFast ==
  /\ [](\A r \in 1 .. Len(runs) : \A i \in 1 .. Len(runs[r].codes) :
          runs[r].codes[i] # 0 =>
            /\ i = Len(runs[r].codes)
            /\ Len(runs[r].invoked) = i
            /\ runs[r].proc = "closed")
  /\ [][\A r \in 1 .. Len(runs) :
          (Closes(r) /\ LastCode(runs'[r]) # 0 /\ Len(runs[r].invoked) < Len(Chain)) =>
            /\ runs'[r].invoked = runs[r].invoked
            /\ isProcessing' = FALSE
            /\ StatusResponse'.isProcessing = FALSE
            /\ StatusResponse'.status = "error"
            /\ StatusResponse'.processingError # None
            /\ StatusResponse'.processingError[1].script = Chain[Len(runs[r].invoked)]]_vars

\* C1's case: stage k < 5 of some run closed with code 1 and a status query
\* has been answered with that error.
C1_Witness ==
  \E r \in 1 .. Len(runs) :
    /\ runs[r].proc = "closed"
    /\ Len(runs[r].codes) \in 1 .. Len(Chain) - 1
    /\ LastCode(runs[r]) = 1
    /\ statusResp # None
    /\ statusResp[1].status = "error"
    /\ statusResp[1].processingError = Some(ExitMessage(Chain[Len(runs[r].codes)], 1))

\* The order of the stages the pipeline is documented to have.
StageOrder == <<"cleaning2.py", "cleanup_files.py", "export_geojson.py",
                "cluster_hdbscan.py", "mobile_cluster_fetch.py">>

\* C2: the scripts a run has invoked are an initial part of cleaning2,
\* cleanup_files, export_geojson, cluster_hdbscan, mobile_cluster_fetch (so each
\* at most once, in that order), and every stage before the one invoked last
\* has closed with exit code 0.
C2_StageOrder ==
  \A r \in 1 .. Len(runs) :
    /\ Len(runs[r].invoked) <= Len(StageOrder)
    /\ runs[r].invoked = SubSeq(StageOrder, 1, Len(runs[r].invoked))
    /\ \A i \in 1 .. Len(runs[r].invoked) - 1 :
         Len(runs[r].codes) >= i /\ runs[r].codes[i] = 0

\* C2's case: a run went through all five stages.
C2_Witness ==
  \E r \in 1 .. Len(runs) : runs[r].finished /\ Len(runs[r].invoked) = 5

\* C3: in every reachable state at most one stage process is running.
C3_OneStageProcess ==
  Cardinality({r \in 1 .. Len(runs) : runs[r].proc = "running"}) <= 1

\* C4: processingError set implies isProcessing false.
C4_ErrorImpliesNotProcessing == processingError # None => ~isProcessing

\* C4's case: a run failed and left its error; another upload was accepted
\* before or after.
C4_Witness == processingError # None /\ Len(runs) = 2

\* C5: when the last stage of a run closes with exit code 0, isProcessing is
\* false and processingError is absent, and GET /status, asked then, answers
\* isProcessing false, status "idle", no processingError.
C5_IdleAfterLastStage ==
  [][\A r \in 1 .. Len(runs) :
       (Closes(r) /\ LastCode(runs'[r]) = 0 /\ Len(runs[r].invoked) = Len(Chain)) =>
         /\ isProcessing' = FALSE
         /\ processingError' = None
         /\ StatusResponse'.isProcessing = FALSE
         /\ StatusResponse'.status = "idle"
         /\ StatusResponse'.processingError = None]_vars

\* The handler of POST /upload answers request q in this step.
Answers(q) == reqs[q].phase = "stored" /\ reqs'[q].phase = "done"

C7_RespondsBeforeAnyStageCompletes ==
  /\ [](\A r \in 1 .. Len(runs) :
          /\ reqs[runs[r].req].phase = "done"
          /\ reqs[runs[r].req].resp[1].code = 200)
  /\ [][\A q \in Requests :
          (/\ Answers(q)
           /\ reqs[q].file # None
           /\ validateExcelFile(dataFolder[reqs[q].file[1].name]).valid) =>
            /\ reqs'[q].resp[1].code = 200
            /\ reqs'[q].resp[1].filename = Some(reqs[q].file[1].name)
            /\ isProcessing' = TRUE
            /\ Len(runs') = Len(runs) + 1
            /\ runs'[Len(runs')].req = q
            /\ runs'[Len(runs')].invoked = <<"cleaning2.py">>
            /\ runs'[Len(runs')].codes = <<>>
            /\ ~runs'[Len(runs')].finished]_vars

\* C7's case: a request has its success response while stage 1 of its run is
\* still running.
C7_Witness ==
  \E r \in 1 .. Len(runs) :
    /\ runs[r].invoked = <<"cleaning2.py">>
    /\ runs[r].proc = "running"
    /\ reqs[runs[r].req].resp # None
    /\ reqs[runs[r].req].resp[1].code = 200
    /\ isProcessing

\* C8: GET /status answers status "processing" if isProcessing, otherwise
\* "error" if processingError is set, otherwise "idle"; and processingTime 0
\* when processingStartTime is absent, else the whole seconds elapsed since.
C8_StatusProjection ==
  statusResp # None =>
    /\ statusResp[1].status =
         (IF isProcessing THEN "processing"
          ELSE IF processingError # None THEN "error" ELSE "idle")
    /\ processingStartTime = None => statusResp[1].processingTime = 0
    /\ processingStartTime # None =>
         /\ statusResp[1].processingTime * 1000 <= now - processingStartTime[1]
         /\ now - processingStartTime[1] < (statusResp[1].processingTime + 1) * 1000
    /\ statusResp[1].isProcessing = isProcessing
    /\ statusResp[1].processingStartTime = processingStartTime
    /\ statusResp[1].processingError = processingError

\* C8's case: a status query answered a second and a half after a run started.
C8_Witness ==
  /\ statusResp # None
  /\ statusResp[1].processingTime = 1
  /\ processingStartTime # None
  /\ now - processingStartTime[1] = 1500

\* C9: GET /status leaves isProcessing, processingStartTime and processingError
\* unchanged, and these change only in a step of the orchestrator: a run is
\* started or the process of a run closes or fails to start.
C9_StatusReadOnly ==
  [][/\ statusResp' # None => UNCHANGED pipelineRun
     /\ pipelineRun' # pipelineRun =>
          \/ Len(runs') = Len(runs) + 1
          \/ \E r \in 1 .. Len(runs) : runs'[r].proc # runs[r].proc]_vars

\* C9's case: a status query answered while a second run is in flight and an
\* error of another run is recorded.
C9_Witness ==
  /\ statusResp # None
  /\ Len(runs) = 2
  /\ statusResp[1].processingError # None
  /\ \E r \in 1 .. Len(runs) : runs[r].proc = "running"

\* C10: a dropped file for which validateFile returns errors is never the file
\* of a POST /upload of the client, and the drop that holds it sends no request
\* and leaves processingStage "error" with the file's errors shown.
C10_InvalidFileNeverSent ==
  /\ [](\A q \in Requests :
          reqs[q].origin = "client" =>
            \E f \in Files :
              /\ validateFile(f) = <<>>
              /\ reqs[q].file = Some([f EXCEPT !.name = sanitizeFileName(f.name)]))
  /\ [][\A files \in Drops : \A i \in 1 .. Len(files) :
          (validateFile(files[i]) # <<>> /\ DropFiles(files)) =>
            /\ reqs' = reqs
            /\ processingStage' = "error"
            /\ \E k \in 1 .. Len(validationErrors') :
                 validationErrors'[k] = [text |-> "validation-failed",
                                         detail |-> validateFile(files[i])]]_vars

\* C10's case: the too-small file was dropped, its error is shown and no
\* request has been sent.
C10_Witness ==
  /\ processingStage = "error"
  /\ validationErrors = <<[text |-> "validation-failed", detail |-> <<"too-small">>]>>
  /\ \A q \in Requests : reqs[q].phase = "none"

\* multer has written the file of request q into the data folder.
Staged(q) == reqs[q].file # None /\ reqs[q].phase \in {"stored", "done"}

OutOfRange(file) == file.size < MIN_FILE_SIZE \/ file.size > MAX_FILE_SIZE

\* C11: a file smaller than 1024 bytes or larger than 50*1024*1024 bytes gets a
\* size error from validateFile and is never written to the data folder.
C11_OutOfRangeNeverStaged ==
  \A q \in Requests :
    (reqs[q].file # None /\ OutOfRange(reqs[q].file[1])) =>
      /\ \E i \in 1 .. Len(validateFile(reqs[q].file[1])) :
           validateFile(reqs[q].file[1])[i] \in {"too-large", "too-small"}
      /\ ~Staged(q)

\* C12: every POST /upload whose file fails a check of validateFile (size, name,
\* extension, dots, hidden file, MIME type) is answered with a failure status
\* and a list of error strings, whoever sent it.
C12_ServerRerunsChecks ==
  \A q \in Requests :
    (reqs[q].phase = "done" /\ reqs[q].file # None /\ validateFile(reqs[q].file[1]) # <<>>) =>
      /\ reqs[q].resp[1].code >= 400
      /\ reqs[q].resp[1].validationErrors # None
      /\ Len(reqs[q].resp[1].validationErrors[1]) > 0

\* C13: every file in the data folder is stored under a name sanitizeFileName
\* returns unchanged.
C13_StagedUnderSanitizedName ==
  \A name \in DOMAIN dataFolder :
    dataFolder[name] # None => sanitizeFileName(name) = name

DotDot == <<".", ".">>

\* C14: for a file name that contains '..', the name sanitizeFileName returns
\* contains no '..', whatever the length of the name.
C14_NoDotDotAfterSanitize ==
  (contains(input, DotDot) /\ Len(output) >= 1) => ~contains(output[1], DotDot)

\* C15: sanitizeFileName(sanitizeFileName(x)) = sanitizeFileName(x) for every
\* file name x.
C15_SanitizeIdempotent ==
  Len(output) = 2 => output[2] = output[1]

\* The callback of request q's setTimeout runs in this step.
TimesOut(q) == polling[q].timeout /\ ~polling'[q].timeout

\* C16: when the five-minute timer of a polling runs while the polling has not
\* ended, the client stops polling and shows the timeout: processingStage is
\* "error" and uploadStatus is the timeout message.
C16_TimeoutReported ==
  [][\A q \in Requests :
       (TimesOut(q) /\ polling[q].interval) =>
         /\ ~polling'[q].interval
         /\ processingStage' = "error"
         /\ uploadStatus' = <<"Processing timeout. Please try again.">>]_vars

\* The client handles a status response of request q's polling in this step.
Handles(q) == polling[q].inflight # None /\ polling'[q].inflight = Tail(polling[q].inflight)

\* C17: handling a status response with status "error" clears the interval and
\* shows the response's processingError with processingStage "error"; one with
\* isProcessing false and no error clears the interval and sets processingStage
\* "complete"; one with isProcessing true leaves the interval and
\* processingStage as they are.
C17_PollOutcomes ==
  [][\A q \in Requests :
       Handles(q) =>
         LET statusData == polling[q].inflight[1] IN
         /\ statusData.status = "error" =>
              /\ ~polling'[q].interval
              /\ processingStage' = "error"
              /\ uploadStatus' = <<"Processing failed: ", statusData.processingError[1]>>
         /\ (~statusData.isProcessing /\ statusData.processingError = None) =>
              /\ ~polling'[q].interval
              /\ processingStage' = "complete"
         /\ statusData.isProcessing =>
              /\ polling'[q].interval = polling[q].interval
              /\ processingStage' = processingStage]_vars

\* C17's case: the polling of the first upload has ended, its five-minute
\* timer still pending, on a response that reported the failure of cleaning2.py,
\* and the page shows that error.
C17_Witness ==
  /\ ~polling[1].interval /\ polling[1].timeout /\ polling[1].inflight = None
  /\ processingStage = "error"
  /\ uploadStatus = <<"Processing failed: ", ExitMessage(script1, 1)>>

\* The sheet name contains four digits in a row that read 1900 to 2099.
HasYear(name) ==
  \E i \in 1 .. Len(name) - 3 :
    /\ <<name[i], name[i + 1]>> \in {<<"1", "9">>, <<"2", "0">>}
    /\ name[i + 2] \in DigitChars
    /\ name[i + 3] \in DigitChars

\* The errors of the given kind validateExcelFile returned for sheet k of input.
ErrorsOf(k, kind) ==
  LET errors == output[1].errors
  IN {i \in 1 .. Len(errors) : errors[i].kind = kind /\ errors[i].sheet = input[k].name}

\* C18: for each sheet, validateExcelFile returns no 'must include a year' error
\* when the sheet name contains a four-digit substring from 1900 to 2099, and
\* exactly one for that sheet otherwise.
C18_YearErrorPerSheet ==
  Len(output) = 1 =>
    \A k \in 1 .. Len(input) :
      Cardinality(ErrorsOf(k, "year")) = IF HasYear(input[k].name) THEN 0 ELSE 1

\* Trim, lowercase, whitespace to '_', drop what is no letter, digit or '_'.
Normalized(h) == stripNonWord(replaceSpaceRuns(toLowerCase(trim(h))))

\* The required columns among the normalized header cells of sheet k of input.
ColumnsPresent(k) ==
  {ALL_REQUIRED_COLUMNS[c] : c \in {c \in 1 .. Len(ALL_REQUIRED_COLUMNS) :
     \E j \in 1 .. Len(input[k].rows[1]) :
       Normalized(input[k].rows[1][j]) = ALL_REQUIRED_COLUMNS[c]}}

AllColumns == {ALL_REQUIRED_COLUMNS[c] : c \in 1 .. Len(ALL_REQUIRED_COLUMNS)}

Accepts == Len(runs') = Len(runs) + 1

\* C20: a processingError that is set stays set in every step but the
\* acceptance of an upload; and the step that accepts an upload sets
\* isProcessing, sets processingStartTime to the time of that step, clears
\* processingError and invokes cleaning2.py as the first and only stage of the
\* new run.
C20_ErrorUntilNextAccepted ==
  [][/\ (processingError # None /\ ~Accepts) => processingError' # None
     /\ Accepts =>
          /\ isProcessing' = TRUE
          /\ processingStartTime' = Some(now)
          /\ processingError' = None
          /\ runs'[Len(runs')].invoked = <<"cleaning2.py">>
          /\ runs'[Len(runs')].codes = <<>>
          /\ \A r \in 1 .. Len(runs) : runs'[r] = runs[r]]_vars

\* C20's case: the first run failed and left its error, time passed, and a
\* second upload has been accepted: the error is gone and the start time is new.
C20_Witness ==
  /\ Len(runs) = 2
  /\ runs[1].proc = "closed" /\ ~runs[1].finished
  /\ runs[2].invoked = <<"cleaning2.py">> /\ runs[2].codes = <<>>
  /\ processingError = None
  /\ isProcessing
  /\ processingStartTime = Some(1500)
  /\ now = 1500

\* What XLSX.readFile finds at the staged path cannot be opened: the file is
\* gone, or it is no workbook the library reads.
Unopenable(onDisk) == onDisk = None \/ ~Workbook(onDisk[1]).readable

C22_EmptyOrHeadersOnly ==
  Len(output) = 1 =>
    \A k \in 1 .. Len(input) :
      /\ Cardinality(ErrorsOf(k, "empty")) = IF Len(input[k].rows) = 0 THEN 1 ELSE 0
      /\ Cardinality(ErrorsOf(k, "headersonly")) = IF Len(input[k].rows) = 1 THEN 1 ELSE 0

\* C22's case: a workbook of two sheets has been validated, one with a header
\* row and a data row, which gets neither error, and one with a header row
\* only, which gets the second error alone.
C22_Witness ==
  /\ Len(output) = 1
  /\ Len(input) = 2
  /\ Len(input[1].rows) = 2
  /\ ErrorsOf(1, "empty") \cup ErrorsOf(1, "headersonly") = {}
  /\ Len(input[2].rows) = 1
  /\ ErrorsOf(2, "empty") = {}
  /\ Cardinality(ErrorsOf(2, "headersonly")) = 1

\* C23: handling a status response with isProcessing true sets the label and
\* the step from the response's processingTime alone: below 3 the processing
\* label and step 2, from 3 and below 6 the converting label and step 3, from 6
\* the 'still processing' label with the seconds elapsed and step 3.
C23_LabelFromProcessingTime ==
  [][\A q \in Requests :
       (Handles(q) /\ polling[q].inflight[1].isProcessing) =>
         LET processingTime == polling[q].inflight[1].processingTime IN
         /\ processingTime < 3 =>
              /\ uploadStatus' = <<"Processing data through pipeline...">>
              /\ currentStep' = 2
         /\ (3 <= processingTime /\ processingTime < 6) =>
              /\ uploadStatus' = <<"Converting to GeoJSON...">>
              /\ currentStep' = 3
         /\ processingTime >= 6 =>
              /\ uploadStatus' = <<"Still processing... ", processingTime>>
              /\ currentStep' = 3]_vars

\* C23's case: six seconds after the upload the page shows 'still processing
\* (6s elapsed)' at step 3 while the run's first stage, cleaning2.py, is still
\* the one running.
C23_Witness ==
  /\ uploadStatus = <<"Still processing... ", 6>>
  /\ currentStep = 3
  /\ processingStage = "processing"
  /\ Len(runs) = 1
  /\ runs[1].invoked = <<script1>>
  /\ runs[1].proc = "running"

\* C24: whenever a stage process of some run is running, isProcessing is true
\* and GET /status answers status "processing"; also with two runs in flight
\* of which one has finished or failed.
C24_ProcessingWhileStageRuns ==
  (\E r \in 1 .. Len(runs) : runs[r].proc = "running") =>
    /\ isProcessing
    /\ StatusResponse.status = "processing"

\* Request q has been answered with the success response.
Accepted(q) == reqs[q].phase = "done" /\ reqs[q].resp[1].code = 200

\* The process of some run emits 'close' or 'error' in this step.
SomeProcessEnds ==
  \E r \in 1 .. Len(runs) :
    /\ runs[r].proc \in {"running", "spawnfail", "errored"}
    /\ runs'[r].proc \in {"closed", "errored"}
    /\ runs'[r].proc # runs[r].proc

\* The step that sends the success response of an upload writes the start of
\* its run (isProcessing true, processingError absent, a new start time), and
\* that state stays until a process of some run closes or fails.
RunStartWrittenWithResponse ==
  /\ [][\A q \in Requests :
          (Answers(q) /\ reqs'[q].resp[1].code = 200) =>
            /\ isProcessing'
            /\ processingError' = None
            /\ processingStartTime' = Some(now)
            /\ Len(runs') = Len(runs) + 1
            /\ runs'[Len(runs')].req = q]_vars
  /\ [][(/\ isProcessing /\ processingError = None
         /\ ~(isProcessing' /\ processingError' = None)) => SomeProcessEnds]_vars

\* C25: a GET /status handled after the success response of an upload answers
\* with the state its run's start wrote (isProcessing true, no processingError)
\* or with a later state of that run, the run's process having closed or
\* failed; never with the state from before the upload.
C25_StatusOfOwnRun ==
  statusResp # None =>
    \A q \in Requests :
      Accepted(q) =>
        \E r \in 1 .. Len(runs) :
          /\ runs[r].req = q
          /\ \/ statusResp[1].isProcessing /\ statusResp[1].processingError = None
             \/ /\ ~statusResp[1].isProcessing
                /\ runs[r].proc \in {"closed", "errored"}

\* C26: the page handles a status response of a polling only while the
\* polling's interval is set: none after clearInterval, so the terminal
\* outcome of an upload ("complete" or "error") is applied at most once, also
\* with several status requests in flight together.
C26_NoResponseAfterCancel ==
  [][\A q \in Requests : Handles(q) => polling[q].interval]_vars

\* The polling of request q, the page's latest upload, has stopped: it was
\* started by the success response and its interval is cleared.
PollingStopped(q) ==
  /\ Accepted(q) /\ reqs[q].seen
  /\ ~polling[q].interval
  /\ \A p \in Requests : p > q => reqs[p].phase = "none"

\* C27: once the polling of the page's latest upload has stopped (on a
\* terminal response, a polling error or the five-minute timer),
\* processingStage is "complete" or "error", the stages that offer 'Upload
\* Another File'; it is never left at "processing", which disables the dropzone.
C27_StoppedPollingIsTerminal ==
  \A q \in Requests : PollingStopped(q) => processingStage \in {"complete", "error"}

\* C28: with every invoked stage process closing and finitely many uploads
\* accepted, isProcessing is eventually false for good; and a run invokes a
\* later stage only when its process closes, and isProcessing is set to false
\* only when a process of some run closes or fails, so a stage that never
\* closes leaves its run where it is and the run never writes isProcessing.
C28_EventuallyIdle ==
  /\ <>[](~isProcessing)
  /\ [][\A r \in 1 .. Len(runs) :
          runs'[r].invoked # runs[r].invoked =>
            /\ runs[r].proc = "running"
            /\ Closes(r)
            /\ LastCode(runs'[r]) = 0]_vars
  /\ [][(isProcessing /\ ~isProcessing') => SomeProcessEnds]_vars

\* C28's case: two uploads were accepted, one run went through its five stages
\* and the other failed, and isProcessing is false.
C28_Witness ==
  /\ ~isProcessing
  /\ Len(runs) = MaxUploads
  /\ \A r \in 1 .. Len(runs) : runs[r].proc = "closed"
  /\ \E r \in 1 .. Len(runs) : runs[r].finished
  /\ \E r \in 1 .. Len(runs) : ~runs[r].finished

\* validateFile finds nothing wrong with a file of this name (its size and
\* MIME type in order).
PassesValidateFile(name) ==
  validateFile([name |-> name, size |-> MIN_FILE_SIZE, type |-> XlsxMime, book |-> "GoodBook"]) = <<>>

\* C29: for a file name that passes validateFile, the name sanitizeFileName
\* returns keeps the extension of the name, an allowed one; is at most 200
\* characters long; contains no '..'; does not start with '.'; and is returned
\* unchanged by sanitizeFileName.
C29_ValidNameSanitizedSafely ==
  (Len(output) >= 1 /\ PassesValidateFile(input)) =>
    LET name == output[1] IN
    /\ substringFrom(name, lastIndexOfDot(name)) = substringFrom(input, lastIndexOfDot(input))
    /\ toLowerCase(substringFrom(name, lastIndexOfDot(name))) \in ALLOWED_EXTENSIONS
    /\ Len(name) <= SANITIZED_MAX
    /\ ~contains(name, DotDot)
    /\ ~startsWith(name, <<".">>)
    /\ Len(output) = 2 => output[2] = name

\* C29's case: a name of more than 200 characters with a space in it passes
\* validateFile, and sanitizeFileName has changed and shortened it, then
\* been applied again.
C29_Witness ==
  /\ Len(output) = 2
  /\ PassesValidateFile(input)
  /\ Len(input) > SANITIZED_MAX
  /\ contains(input, <<" ">>)
  /\ Len(output[1]) = SANITIZED_MAX
  /\ output[1] # SubSeq(input, 1, SANITIZED_MAX)

\* The path under which the upload that started run r was staged.
StagedPathOf(r) == reqs[runs[r].req].file[1].name

\* C30: while a stage process of a run is running, no step of the upload
\* route (multer's store, the handler's unlink) changes the staged file of the
\* upload that started the run; in particular not for a later upload of the
\* same file name that fails structural validation.
C30_StagedFileKeptWhileRunning ==
  [][\A r \in 1 .. Len(runs) :
       runs[r].proc = "running" =>
         dataFolder'[StagedPathOf(r)] = dataFolder[StagedPathOf(r)]]_vars

====
